---------------------------- MODULE Spec2Model ----------------------------
(***************************************************************************)
(* Model of src/app/server/app.py (fnmusic server): the path guard, the    *)
(* file-serving handlers, the favorites store and the library scan.        *)
(*                                                                         *)
(* A Python str is modelled as a sequence of one-character tokens, e.g.    *)
(* "/m/a.mp3" is <<"/","m","/","a",".","m","p","3">>.  The token "NUL" is   *)
(* the character "\0".                                                     *)
(***************************************************************************)
EXTENDS Integers, Sequences, FiniteSets, TLC

VARIABLES
  \* one call of the path guard
  gCand,        \* candidate_path
  gBase,        \* base_dir
  gRes,         \* "none" before the call, then "true" / "false" / "raise"
  \* the server process
  environ,      \* os.environ['MUSIC_DIR'], NoneVal when unset
  cfgMusic,     \* config.json's music_directory, NoneVal when absent
  favFile,      \* favorites_file on disk
  pc,           \* per worker thread: where its handler stands
  req,          \* per worker thread: the request it serves
  loaded,       \* per worker thread: what load_favorites returned
  favs,         \* per worker thread: the handler's local list favs
  resp,         \* per worker thread: the response's status code, 0 = none yet
  opened,       \* per worker thread: canonical paths of the media files read
  wrote,        \* per worker thread: whether the handler wrote favorites_file
  nreq,         \* requests begun so far
  \* one library scan
  walkFiles,    \* the file names os.walk lists for the media root, in its order
  walkDirs,     \* the subdirectory names os.walk lists for the media root
  scanRes       \* list_files' result: its status (0 before the scan) and tracks

gvars == << gCand, gBase, gRes >>
svars == << environ, cfgMusic, favFile, pc, req, loaded, favs, resp, opened, wrote, nreq >>
wvars == << walkFiles, walkDirs, scanRes >>
vars == << gCand, gBase, gRes, environ, cfgMusic, favFile, pc, req, loaded, favs,
           resp, opened, wrote, nreq, walkFiles, walkDirs, scanRes >>

\* ------------------------------------------------------------------ bounds
\* Longest candidate path enumerated for the path guard.
MaxPathLen == 5
\* Most requests served one after the other.
MaxRequests == 3
\* Most directory entries of the scanned media root.
MaxFiles == 3

\* ----------------------------------------------------------- characters
\* The characters used, in code-point order (Python compares str by code point).
UpperCase ==
  << "A", "B", "C", "D", "E", "F", "G", "H", "I", "J", "K", "L", "M",
     "N", "O", "P", "Q", "R", "S", "T", "U", "V", "W", "X", "Y", "Z" >>
LowerCase ==
  << "a", "b", "c", "d", "e", "f", "g", "h", "i", "j", "k", "l", "m",
     "n", "o", "p", "q", "r", "s", "t", "u", "v", "w", "x", "y", "z" >>
CharsInOrder ==
  << "NUL", " ", ".", "/", "0", "1", "2", "3", "4", "5", "6", "7", "8", "9" >>
  \o UpperCase \o << "\\", "_" >> \o LowerCase

Ord(c) == CHOOSE i \in 1..Len(CharsInOrder) : CharsInOrder[i] = c

\* str.lower() on one character.
LowerChar(c) ==
  IF \E i \in 1..Len(UpperCase) : UpperCase[i] = c
  THEN LowerCase[CHOOSE i \in 1..Len(UpperCase) : UpperCase[i] = c]
  ELSE c

\* str.lower()
Lower(s) == [i \in 1..Len(s) |-> LowerChar(s[i])]

\* Python's s1 < s2 on str: lexicographic by code point.
RECURSIVE StrLess(_, _)
StrLess(s1, s2) ==
  IF s1 = <<>> THEN s2 # <<>>
  ELSE IF s2 = <<>> THEN FALSE
  ELSE IF Head(s1) = Head(s2) THEN StrLess(Tail(s1), Tail(s2))
  ELSE Ord(Head(s1)) < Ord(Head(s2))

\* Python's l1 < l2 on lists of str.
RECURSIVE ListLess(_, _)
ListLess(l1, l2) ==
  IF l1 = <<>> THEN l2 # <<>>
  ELSE IF l2 = <<>> THEN FALSE
  ELSE IF Head(l1) = Head(l2) THEN ListLess(Tail(l1), Tail(l2))
  ELSE StrLess(Head(l1), Head(l2))

\* s.startswith(p)
StartsWith(s, p) == Len(p) <= Len(s) /\ SubSeq(s, 1, Len(p)) = p

\* s.endswith(p)
EndsWith(s, p) == Len(p) <= Len(s) /\ SubSeq(s, Len(s) - Len(p) + 1, Len(s)) = p

\* p in s  (substring test)
Contains(s, p) ==
  \E i \in 1..(Len(s) - Len(p) + 1) : SubSeq(s, i, i + Len(p) - 1) = p

\* s.split("/")
RECURSIVE SplitSep(_)
SplitSep(s) ==
  IF \A i \in 1..Len(s) : s[i] # "/" THEN << s >>
  ELSE LET k == CHOOSE i \in 1..Len(s) :
                  s[i] = "/" /\ \A j \in 1..(i - 1) : s[j] # "/"
       IN << SubSeq(s, 1, k - 1) >> \o SplitSep(SubSeq(s, k + 1, Len(s)))

\* "/".join(segs)
RECURSIVE JoinSep(_)
JoinSep(segs) ==
  IF segs = <<>> THEN <<>>
  ELSE IF Len(segs) = 1 THEN segs[1]
  ELSE segs[1] \o <<"/">> \o JoinSep(Tail(segs))

\* The absolute path string of a list of segments: "/" + "/".join(segs).
AbsOf(segs) == <<"/">> \o JoinSep(segs)

\* os.path.isabs
IsAbs(s) == StartsWith(s, <<"/">>)

\* os.path.join(a, b)
PathJoin(a, b) ==
  IF IsAbs(b) THEN b
  ELSE IF a = <<>> \/ EndsWith(a, <<"/">>) THEN a \o b
  ELSE a \o <<"/">> \o b

\* os.path.splitext: the extension starts at the last dot of the last
\* component, leading dots of the component not counted.
SplitExtAt(s) ==
  LET slashes == {i \in 1..Len(s) : s[i] = "/"}
      sepIndex == IF slashes = {} THEN 0
                  ELSE CHOOSE i \in slashes : \A j \in slashes : j <= i
      dots == {i \in (sepIndex + 1)..Len(s) : s[i] = "."}
      dotIndex == IF dots = {} THEN 0
                  ELSE CHOOSE i \in dots : \A j \in dots : j <= i
  IN IF dotIndex > sepIndex
        /\ \E k \in (sepIndex + 1)..(dotIndex - 1) : s[k] # "."
     THEN dotIndex ELSE Len(s) + 1

SplitExtRoot(s) == SubSeq(s, 1, SplitExtAt(s) - 1)
SplitExtExt(s) == SubSeq(s, SplitExtAt(s), Len(s))

\* ------------------------------------------------------------ filesystem
\* The host filesystem: canonical path -> kind, symlinks with their target.
\* /m is the media root of the handlers; /m2, /m.lrc and /e lie outside it.
\* /l is the library the scan walks; its entries are the scan's input.
S_lrc == <<".", "l", "r", "c">>
S_mp3 == <<".", "m", "p", "3">>
P_m == <<"/", "m">>
P_m2 == <<"/", "m", "2">>

FileSystem ==
  { [path |-> P_m,                                kind |-> "dir",  target |-> <<>>],
    [path |-> P_m2,                               kind |-> "dir",  target |-> <<>>],
    [path |-> <<"/", "l">>,                       kind |-> "dir",  target |-> <<>>],
    [path |-> <<"/", "s">>,                       kind |-> "link", target |-> P_m],
    [path |-> <<"/", "m", "/", "m">>,             kind |-> "file", target |-> <<>>],
    [path |-> <<"/", "m", "/", "s">>,             kind |-> "link", target |-> <<".", ".", "/", "m", "2">>],
    [path |-> <<"/", "m", "2", "/", "m">>,        kind |-> "file", target |-> <<>>],
    [path |-> <<"/", "e">>,                       kind |-> "file", target |-> <<>>],
    [path |-> <<"/", "m">> \o S_lrc,              kind |-> "file", target |-> <<>>],
    [path |-> <<"/", "m", "/", "a">> \o S_mp3,    kind |-> "file", target |-> <<>>],
    [path |-> <<"/", "m", "/", "a">> \o S_lrc,    kind |-> "file", target |-> <<>>],
    [path |-> <<"/", "m", "/", "b">> \o S_mp3,    kind |-> "file", target |-> <<>>],
    [path |-> <<"/", "m", "/", "b">> \o S_lrc,    kind |-> "link", target |-> <<"/", "e">>] }

\* The working directory of the server process (os.getcwd(), canonical).
Cwd == <<>>

\* os.lstat: the entry at a canonical path, kind "none" when lstat fails.
Lstat(segs) ==
  IF segs = <<>> THEN [path |-> <<"/">>, kind |-> "dir", target |-> <<>>]
  ELSE IF \E e \in FileSystem : e.path = AbsOf(segs)
       THEN CHOOSE e \in FileSystem : e.path = AbsOf(segs)
       ELSE [path |-> AbsOf(segs), kind |-> "none", target |-> <<>>]

\* posixpath._joinrealpath (strict=False): resolve the components of rest
\* one by one from path; "" and "." are skipped, ".." drops the last
\* component, a symlink is replaced by its resolved target, a component
\* lstat fails on is kept as it is.
RECURSIVE JoinRealPath(_, _)
JoinRealPath(path, rest) ==
  IF rest = <<>> THEN path
  ELSE LET name == Head(rest)
           more == Tail(rest)
       IN IF name = <<>> \/ name = <<".">> THEN JoinRealPath(path, more)
          ELSE IF name = <<".", ".">>
               THEN JoinRealPath(IF path = <<>> THEN <<>>
                                 ELSE SubSeq(path, 1, Len(path) - 1), more)
          ELSE LET newpath == Append(path, name)
                   st == Lstat(newpath)
               IN IF st.kind = "link"
                  THEN JoinRealPath(
                         JoinRealPath(IF IsAbs(st.target) THEN <<>> ELSE path,
                                      SplitSep(st.target)),
                         more)
                  ELSE JoinRealPath(newpath, more)

\* The canonical segments of a path string (relative paths start at Cwd).
RealSegs(p) == JoinRealPath(IF IsAbs(p) THEN <<>> ELSE Cwd, SplitSep(p))

\* The value a raised exception is modelled by.
Raise == << "<raise>" >>

\* os.path.realpath: ValueError on an embedded null byte, else the
\* canonical absolute path (a path that does not exist is no error).
RealPath(p) ==
  IF \E i \in 1..Len(p) : p[i] = "NUL" THEN Raise ELSE AbsOf(RealSegs(p))

\* os.path.exists: follows symlinks, False on any error.
Exists(p) ==
  /\ p # <<>>
  /\ \A i \in 1..Len(p) : p[i] # "NUL"
  /\ Lstat(RealSegs(p)).kind \in {"dir", "file"}

\* --------------------------------------------------------- path guard
\* realpath_or_empty without its try/except.
realpath_or_empty_nocatch(path) ==
  IF path = <<>> THEN <<>> ELSE RealPath(path)

realpath_or_empty(path) ==
  IF path = <<>> THEN <<>>
  ELSE LET r == RealPath(path) IN IF r = Raise THEN <<>> ELSE r

\* os.path.commonpath([p1, p2]) on two absolute paths.
commonpath(p1, p2) ==
  IF IsAbs(p1) # IsAbs(p2) THEN Raise
  ELSE LET clean(s) == SelectSeq(SplitSep(s), LAMBDA c : c # <<>> /\ c # <<".">>)
           a == clean(p1)
           b == clean(p2)
           s1 == IF ListLess(b, a) THEN b ELSE a
           s2 == IF ListLess(b, a) THEN a ELSE b
           diff == {i \in 1..Len(s1) : i > Len(s2) \/ s1[i] # s2[i]}
           common == IF diff = {} THEN s1
                     ELSE SubSeq(s1, 1, (CHOOSE i \in diff : \A j \in diff : i <= j) - 1)
       IN (IF IsAbs(p1) THEN <<"/">> ELSE <<>>) \o JoinSep(common)

\* The guard comparing the canonical strings by prefix instead of by segment.
is_safe_child_path_startswith(candidate_path, base_dir) ==
  IF candidate_path = <<>> \/ base_dir = <<>> THEN "false"
  ELSE LET candidate == realpath_or_empty(candidate_path)
           base == realpath_or_empty(base_dir)
       IN IF candidate = Raise \/ base = Raise THEN "raise"
          ELSE IF candidate = <<>> \/ base = <<>> THEN "false"
          ELSE IF StartsWith(candidate, base) THEN "true" ELSE "false"

\* is_safe_child_path: "true" / "false", "raise" when an exception escapes.
is_safe_child_path(candidate_path, base_dir) ==
  IF candidate_path = <<>> \/ base_dir = <<>> THEN "false"
  ELSE LET candidate == realpath_or_empty(candidate_path)
           base == realpath_or_empty(base_dir)
       IN IF candidate = Raise \/ base = Raise THEN "raise"
          ELSE IF candidate = <<>> \/ base = <<>> THEN "false"
          ELSE LET common == commonpath(candidate, base)
               IN IF common = Raise THEN "false"
                  ELSE IF common = base THEN "true" ELSE "false"

\* Python's None.
NoneVal == << "<None>" >>

\* The worker threads of the server (app.run serves each request on its own thread).
Threads == {1, 2}

\* No scan made yet.
NoScan == [status |-> 0, songs |-> <<>>, defaults |-> <<>>]

NoRequest == [op |-> "none", method |-> "none", path |-> <<>>]

\* The parts of the state a specification does not use stay as they are here.
GuardIdle == gCand = <<>> /\ gBase = <<>> /\ gRes = "none"
ServerIdle ==
  /\ favFile = [state |-> "missing", data |-> <<>>]
  /\ pc = [t \in Threads |-> "idle"]
  /\ req = [t \in Threads |-> NoRequest]
  /\ loaded = [t \in Threads |-> <<>>]
  /\ favs = [t \in Threads |-> <<>>]
  /\ resp = [t \in Threads |-> 0]
  /\ opened = [t \in Threads |-> {}]
  /\ wrote = [t \in Threads |-> FALSE]
  /\ nreq = 0
ScanIdle == walkFiles = <<>> /\ walkDirs = {} /\ scanRes = NoScan

\* ------------------------------------------------ the guard, call by call
GuardChars == {"/", ".", "m", "2", "s", "NUL"}

\* Every string over GuardChars of at most n characters.
StringsUpTo(n) == UNION { [1..k -> GuardChars] : k \in 0..n }

\* Longer candidates: the spec's own examples (with /m for /music).
LongCandidates ==
  { <<"/", "m", "/", "s", "u", "b", "/", "a">> \o S_mp3,
    <<"/", "m", "2", "/", "a">> \o S_mp3,
    <<"/", "m", "/", ".", ".", "/", "e">>,
    <<"/", "m", "/", "s", "/", ".", ".", "/", "m", "/", "m">> }

GuardBases ==
  { <<>>, P_m, <<"/", "m", "/">>, <<"/">>, <<"/", "s">>, P_m2,
    <<"/", "z">>, <<"/", "m", "NUL">> }

InitGuard ==
  /\ gCand \in StringsUpTo(MaxPathLen) \cup LongCandidates
  /\ gBase \in GuardBases
  /\ gRes = "none"
  /\ environ = NoneVal /\ cfgMusic = NoneVal
  /\ ServerIdle /\ ScanIdle

CallGuard ==
  /\ gRes = "none"
  /\ gRes' = is_safe_child_path(gCand, gBase)
  /\ UNCHANGED << gCand, gBase, svars, wvars >>

NextGuard == CallGuard

SpecGuard == InitGuard /\ [][NextGuard]_vars

\* l1 is a prefix of l2, element by element.
IsPrefix(l1, l2) == Len(l1) <= Len(l2) /\ SubSeq(l2, 1, Len(l1)) = l1

HasNul(p) == \E i \in 1..Len(p) : p[i] = "NUL"

\* Canonical p is canonical b or nested under it, segment by segment.
NestedUnder(p, b) == IsPrefix(RealSegs(b), RealSegs(p))

\* C2: is_safe_child_path(candidate, base) is true iff both are non-empty,
\* both canonicalize, and the canonical candidate is the canonical base or
\* nested under it as whole path segments; /m2/a.mp3 is not under /m,
\* /m/sub/a.mp3 is, an empty candidate or base gives false.
C2_GuardIffNested ==
  gRes # "none" =>
    /\ gRes = "true" <=>
          (/\ gCand # <<>> /\ gBase # <<>>
           /\ ~HasNul(gCand) /\ ~HasNul(gBase)
           /\ NestedUnder(gCand, gBase))
    /\ (gCand = <<"/", "m", "2", "/", "a">> \o S_mp3 /\ gBase = P_m) => gRes = "false"
    /\ (gCand = <<"/", "m", "/", "s", "u", "b", "/", "a">> \o S_mp3 /\ gBase = P_m)
          => gRes = "true"
    /\ (gCand = <<>> \/ gBase = <<>>) => gRes = "false"

\* The sibling /m2/a.mp3 has been judged against the base /m.
C2_Witness ==
  gRes = "false" /\ gCand = <<"/", "m", "2", "/", "a">> \o S_mp3 /\ gBase = P_m

\* C3 as stated: whenever canonicalization of the candidate or the base
\* fails, a candidate that does not exist included, the guard returns false
\* and raises nothing.
C3_FailsClosedOnMissing ==
  (gRes # "none" /\ gCand # <<>> /\ gBase # <<>>
     /\ (HasNul(gCand) \/ HasNul(gBase) \/ ~Exists(gCand)))
    => gRes = "false"

\* C3 amended: the guard never raises; it returns false whenever an input is
\* empty or os.path.realpath raises on the candidate or the base; a
\* candidate that does not exist is no canonicalization failure: it is
\* canonicalized lexically and accepted exactly when the result is the base
\* or nested under it.
C3_FailsClosed ==
  gRes # "none" =>
    /\ gRes # "raise"
    /\ (gCand = <<>> \/ gBase = <<>> \/ HasNul(gCand) \/ HasNul(gBase))
          => gRes = "false"
    /\ (gCand # <<>> /\ ~HasNul(gCand) /\ ~Exists(gCand)
          /\ gBase # <<>> /\ ~HasNul(gBase))
          => (gRes = "true" <=> NestedUnder(gCand, gBase))

\* realpath raised on the candidate and the guard answered false.
C3_Witness == gRes = "false" /\ HasNul(gCand) /\ gBase = P_m

\* ------------------------------------------------------- the media root
\* str.strip() (the only whitespace used is the blank).
RECURSIVE Strip(_)
Strip(s) ==
  IF s = <<>> THEN s
  ELSE IF Head(s) = " " THEN Strip(Tail(s))
  ELSE IF s[Len(s)] = " " THEN Strip(SubSeq(s, 1, Len(s) - 1))
  ELSE s

\* os.path.normpath
NormPath(path) ==
  LET initial_slashes ==
        IF ~StartsWith(path, <<"/">>) THEN 0
        ELSE IF StartsWith(path, <<"/", "/">>) /\ ~StartsWith(path, <<"/", "/", "/">>)
             THEN 2 ELSE 1
      comps == SplitSep(path)
      step[i \in 0..Len(comps)] ==
        IF i = 0 THEN <<>>
        ELSE LET comp == comps[i]
                 new_comps == step[i - 1]
             IN IF comp = <<>> \/ comp = <<".">> THEN new_comps
                ELSE IF \/ comp # <<".", ".">>
                        \/ (initial_slashes = 0 /\ new_comps = <<>>)
                        \/ (new_comps # <<>> /\ new_comps[Len(new_comps)] = <<".", ".">>)
                     THEN Append(new_comps, comp)
                ELSE IF new_comps # <<>> THEN SubSeq(new_comps, 1, Len(new_comps) - 1)
                ELSE new_comps
      joined == JoinSep(step[Len(comps)])
      res == (IF initial_slashes = 2 THEN <<"/", "/">>
              ELSE IF initial_slashes = 1 THEN <<"/">> ELSE <<>>) \o joined
  IN IF res = <<>> THEN <<".">> ELSE res

\* os.path.abspath
AbsPath(path) == NormPath(IF IsAbs(path) THEN path ELSE PathJoin(AbsOf(Cwd), path))

normalize_music_dir(path) ==
  IF path = NoneVal THEN <<>>
  ELSE LET value == Strip(path)
       IN IF value = <<>> THEN <<>>
          ELSE LET v2 == [i \in 1..Len(value) |->
                            IF value[i] = "\\" THEN "/" ELSE value[i]]
               IN IF StartsWith(v2, <<"v", "o", "l">>) THEN <<"/">> \o v2 ELSE v2

\* get_music_dir, given os.environ's MUSIC_DIR and the config file's value.
get_music_dir_of(env, cfg) ==
  LET raw0 == IF env = NoneVal \/ Strip(env) = <<>>
              THEN (IF cfg = NoneVal THEN <<>> ELSE cfg)
              ELSE env
      raw == normalize_music_dir(raw0)
  IN IF raw = <<>> THEN <<>> ELSE AbsPath(raw)

get_music_dir == get_music_dir_of(environ, cfgMusic)

\* ------------------------------------------------------------- handlers
\* play_file with the containment check made before the existence check.
play_file_guard_first(path, base_dir) ==
  LET g == is_safe_child_path(path, base_dir)
  IN IF g = "raise" THEN [status |-> 500, opened |-> {}]
     ELSE IF g # "true" THEN [status |-> 403, opened |-> {}]
     ELSE IF path = <<>> \/ ~Exists(path) THEN [status |-> 404, opened |-> {}]
     ELSE IF Lstat(RealSegs(path)).kind # "file" THEN [status |-> 500, opened |-> {}]
     ELSE [status |-> 200, opened |-> {RealPath(path)}]

\* play_file: the status answered and the canonical paths of the files read.
play_file_result(path, base_dir) ==
  IF path = <<>> \/ ~Exists(path) THEN [status |-> 404, opened |-> {}]
  ELSE LET g == is_safe_child_path(path, base_dir)
       IN IF g = "raise" THEN [status |-> 500, opened |-> {}]
          ELSE IF g # "true" THEN [status |-> 403, opened |-> {}]
          \* send_file(path): a directory cannot be opened
          ELSE IF Lstat(RealSegs(path)).kind # "file" THEN [status |-> 500, opened |-> {}]
          ELSE [status |-> 200, opened |-> {RealPath(path)}]

\* get_lyrics: the status answered and the canonical paths of the files read.
get_lyrics_result(song_path, base_dir) ==
  IF song_path = <<>> THEN [status |-> 400, opened |-> {}]
  ELSE LET g == is_safe_child_path(song_path, base_dir)
       IN IF g = "raise" THEN [status |-> 500, opened |-> {}]
          ELSE IF g # "true" THEN [status |-> 403, opened |-> {}]
          ELSE LET lrc_path == SplitExtRoot(song_path) \o S_lrc
               IN IF Exists(lrc_path) /\ Lstat(RealSegs(lrc_path)).kind = "file"
                  THEN [status |-> 200, opened |-> {RealPath(lrc_path)}]
                  \* no lyric file, or open() failed and the error was answered
                  ELSE [status |-> 200, opened |-> {}]

\* load_favorites: [] when the file is missing or does not parse.
load_favorites == IF favFile.state = "json" THEN favFile.data ELSE <<>>

\* x in list
InList(x, l) == \E i \in 1..Len(l) : l[i] = x

\* list.remove(x): drops the first occurrence.
ListRemove(l, x) ==
  LET k == CHOOSE i \in 1..Len(l) : l[i] = x /\ \A j \in 1..(i - 1) : l[j] # x
  IN SubSeq(l, 1, k - 1) \o SubSeq(l, k + 1, Len(l))

\* manage_favorites after load_favorites: the status answered (0: a save
\* follows first) and the handler's list.
manage_favorites_decide(method, path, base_dir, list) ==
  IF method = "GET" THEN [status |-> 200, favs |-> list, save |-> FALSE]
  ELSE IF path = <<>> THEN [status |-> 400, favs |-> list, save |-> FALSE]
  ELSE LET g == is_safe_child_path(path, base_dir)
       IN IF g = "raise" THEN [status |-> 500, favs |-> list, save |-> FALSE]
          ELSE IF g # "true" THEN [status |-> 403, favs |-> list, save |-> FALSE]
          ELSE IF method = "POST"
               THEN IF ~InList(path, list)
                    THEN [status |-> 0, favs |-> Append(list, path), save |-> TRUE]
                    ELSE [status |-> 200, favs |-> list, save |-> FALSE]
          ELSE IF InList(path, list)
               THEN [status |-> 0, favs |-> ListRemove(list, path), save |-> TRUE]
               ELSE [status |-> 200, favs |-> list, save |-> FALSE]

\* The paths requests carry.
P_a == <<"/", "m", "/", "a">> \o S_mp3
P_a_dot == <<"/", "m", "/", ".", "/", "a">> \o S_mp3
P_a_rel == <<"m", "/", "a">> \o S_mp3
P_b == <<"/", "m", "/", "b">> \o S_mp3
P_e == <<"/", "e">>
P_zz == <<"/", "z", "z">>

MediaPaths ==
  { <<>>, P_a, P_a_rel, P_b, P_m, P_e, P_zz,
    <<"/", "m", "/", "z", "z">> \o S_mp3,
    <<"/", "m", "/", "s", "/", "m">>,
    <<"/", "m", "NUL">> }

FavPaths == { <<>>, P_a, P_a_dot, P_a_rel, P_e, P_zz }

\* GET /api/play?path=...
play_file(t, path) ==
  /\ pc[t] = "idle"
  /\ LET r == play_file_result(path, get_music_dir)
     IN /\ resp' = [resp EXCEPT ![t] = r.status]
        /\ opened' = [opened EXCEPT ![t] = r.opened]
  /\ req' = [req EXCEPT ![t] = [op |-> "play", method |-> "GET", path |-> path]]
  /\ pc' = [pc EXCEPT ![t] = "done"]
  /\ nreq' = nreq + 1
  /\ UNCHANGED << environ, cfgMusic, favFile, loaded, favs, wrote, gvars, wvars >>

\* GET /api/lyrics?song_path=...
get_lyrics(t, song_path) ==
  /\ pc[t] = "idle"
  /\ LET r == get_lyrics_result(song_path, get_music_dir)
     IN /\ resp' = [resp EXCEPT ![t] = r.status]
        /\ opened' = [opened EXCEPT ![t] = r.opened]
  /\ req' = [req EXCEPT ![t] = [op |-> "lyrics", method |-> "GET", path |-> song_path]]
  /\ pc' = [pc EXCEPT ![t] = "done"]
  /\ nreq' = nreq + 1
  /\ UNCHANGED << environ, cfgMusic, favFile, loaded, favs, wrote, gvars, wvars >>

\* manage_favorites, line 383: favs = load_favorites()
manage_favorites_load(t, method, path) ==
  /\ pc[t] = "idle"
  /\ req' = [req EXCEPT ![t] = [op |-> "favorites", method |-> method, path |-> path]]
  /\ loaded' = [loaded EXCEPT ![t] = load_favorites]
  /\ favs' = [favs EXCEPT ![t] = load_favorites]
  /\ pc' = [pc EXCEPT ![t] = "fav_loaded"]
  /\ nreq' = nreq + 1
  /\ UNCHANGED << environ, cfgMusic, favFile, resp, opened, wrote, gvars, wvars >>

\* manage_favorites, lines 384-405 up to the call of save_favorites
manage_favorites_check(t) ==
  /\ pc[t] = "fav_loaded"
  /\ LET r == manage_favorites_decide(req[t].method, req[t].path, get_music_dir, favs[t])
     IN /\ favs' = [favs EXCEPT ![t] = r.favs]
        /\ resp' = [resp EXCEPT ![t] = r.status]
        /\ pc' = [pc EXCEPT ![t] = IF r.save THEN "fav_open" ELSE "done"]
  /\ UNCHANGED << environ, cfgMusic, favFile, req, loaded, opened, wrote, nreq, gvars, wvars >>

\* save_favorites, line 188: open(favorites_file, 'w') truncates the file
save_favorites_open(t) ==
  /\ pc[t] = "fav_open"
  /\ favFile' = [state |-> "truncated", data |-> <<>>]
  /\ wrote' = [wrote EXCEPT ![t] = TRUE]
  /\ pc' = [pc EXCEPT ![t] = "fav_dump"]
  /\ UNCHANGED << environ, cfgMusic, req, loaded, favs, resp, opened, nreq, gvars, wvars >>

\* save_favorites, line 189: json.dump(favs, f), then the response
save_favorites_dump(t) ==
  /\ pc[t] = "fav_dump"
  /\ favFile' = [state |-> "json", data |-> favs[t]]
  /\ resp' = [resp EXCEPT ![t] = 200]
  /\ pc' = [pc EXCEPT ![t] = "done"]
  /\ UNCHANGED << environ, cfgMusic, req, loaded, favs, opened, wrote, nreq, gvars, wvars >>

\* The response is sent and the worker takes the next request.
Respond(t) ==
  /\ pc[t] = "done"
  /\ pc' = [pc EXCEPT ![t] = "idle"]
  /\ req' = [req EXCEPT ![t] = NoRequest]
  /\ loaded' = [loaded EXCEPT ![t] = <<>>]
  /\ favs' = [favs EXCEPT ![t] = <<>>]
  /\ resp' = [resp EXCEPT ![t] = 0]
  /\ opened' = [opened EXCEPT ![t] = {}]
  /\ wrote' = [wrote EXCEPT ![t] = FALSE]
  /\ UNCHANGED << environ, cfgMusic, favFile, nreq, gvars, wvars >>

\* ------------------------------------ requests served one after the other
\* (MUSIC_DIR, config music_directory): set by the environment, by the
\* config file, by neither, and a media root reached through the symlink /s.
ServeRoots ==
  { << P_m, NoneVal >>, << NoneVal, P_m >>, << NoneVal, NoneVal >>,
    << <<"/", "s">>, NoneVal >> }

InitServe ==
  /\ \E r \in ServeRoots : environ = r[1] /\ cfgMusic = r[2]
  /\ ServerIdle /\ GuardIdle /\ ScanIdle

NextServe ==
  \/ \E p \in MediaPaths : nreq < MaxRequests /\ play_file(1, p)
  \/ \E p \in MediaPaths : nreq < MaxRequests /\ get_lyrics(1, p)
  \/ \E m \in {"GET", "POST", "DELETE"}, p \in FavPaths :
        nreq < MaxRequests /\ manage_favorites_load(1, m, p)
  \/ manage_favorites_check(1)
  \/ save_favorites_open(1)
  \/ save_favorites_dump(1)
  \/ Respond(1)

SpecServe == InitServe /\ [][NextServe]_vars

\* ------------------------------------------- two requests at the same time
ConcPaths == { P_a, P_b, P_e }

\* The store as two requests find it: absent, or holding earlier favorites.
ConcStores ==
  { [state |-> "missing", data |-> <<>>],
    [state |-> "json", data |-> << P_a >>],
    [state |-> "json", data |-> << P_a, P_b >>] }

InitConc ==
  /\ environ = P_m /\ cfgMusic = NoneVal
  /\ favFile \in ConcStores
  /\ pc = [t \in Threads |-> "idle"]
  /\ req = [t \in Threads |-> NoRequest]
  /\ loaded = [t \in Threads |-> <<>>]
  /\ favs = [t \in Threads |-> <<>>]
  /\ resp = [t \in Threads |-> 0]
  /\ opened = [t \in Threads |-> {}]
  /\ wrote = [t \in Threads |-> FALSE]
  /\ nreq = 0
  /\ GuardIdle /\ ScanIdle

\* Each of the two workers serves one favorites request; their steps interleave.
NextConc ==
  \E t \in Threads :
    \/ \E m \in {"GET", "POST", "DELETE"}, p \in ConcPaths :
          manage_favorites_load(t, m, p)
    \/ manage_favorites_check(t)
    \/ save_favorites_open(t)
    \/ save_favorites_dump(t)

SpecConc == InitConc /\ [][NextConc]_vars

\* ------------------------------------------------- claims on the handlers
Done(t) == pc[t] = "done"

\* C1: every file play_file or get_lyrics opens has a canonical path that
\* is the media root or nested under it, whatever path the caller gives.
C1_ReadsStayUnderRoot ==
  \A t \in Threads : \A f \in opened[t] :
    get_music_dir # <<>> /\ NestedUnder(f, get_music_dir)

\* The request carries a caller-supplied path that the guard has to pass.
TakesPath(t) ==
  \/ req[t].op \in {"play", "lyrics"}
  \/ req[t].op = "favorites" /\ req[t].method \in {"POST", "DELETE"}

GuardPasses(t) == is_safe_child_path(req[t].path, get_music_dir) = "true"

\* C4 as stated: each of the three operations answers 404 when the supplied
\* path does not exist (so a missing path outside the root gets 404, not
\* 403), 403 when the path exists and the guard fails, and a rejected
\* request has read no file and written no favorites.
C4_NotFoundThenForbidden ==
  \A t \in Threads : (Done(t) /\ TakesPath(t) /\ req[t].path # <<>>) =>
    /\ ~Exists(req[t].path) => resp[t] = 404
    /\ (Exists(req[t].path) /\ ~GuardPasses(t)) => resp[t] = 403
    /\ resp[t] \in {403, 404} => (opened[t] = {} /\ ~wrote[t])

\* C4 amended: play_file answers 404 when the path is empty or does not
\* exist and otherwise 403 when the guard fails; get_lyrics and the
\* POST/DELETE of manage_favorites make no existence check: they answer 400
\* for an empty path and otherwise 403 exactly when the guard fails, so a
\* missing path outside the root gets 403 and never 404; in all three a
\* file is read or the favorites file written only after the guard passed,
\* and a rejected request leaves the favorites file as it found it.
C4_GuardOutcomes ==
  \A t \in Threads : (Done(t) /\ TakesPath(t)) =>
    /\ req[t].op = "play" =>
         /\ resp[t] = 404 <=> (req[t].path = <<>> \/ ~Exists(req[t].path))
         /\ resp[t] = 403 <=> (Exists(req[t].path) /\ ~GuardPasses(t))
    /\ req[t].op # "play" =>
         /\ resp[t] = 400 <=> req[t].path = <<>>
         /\ resp[t] = 403 <=> (req[t].path # <<>> /\ ~GuardPasses(t))
         /\ resp[t] # 404
    /\ (opened[t] # {} \/ wrote[t]) => GuardPasses(t)
    /\ resp[t] \in {400, 403, 404} =>
         /\ opened[t] = {} /\ ~wrote[t]
         /\ req[t].op = "favorites" => load_favorites = loaded[t]

\* get_lyrics answered 403 for a path outside the root that does not exist.
C4_Witness ==
  Done(1) /\ req[1].op = "lyrics" /\ req[1].path = P_zz
    /\ ~Exists(P_zz) /\ resp[1] = 403

\* C9: two concurrent requests that add or remove distinct approved paths
\* are both reflected in the stored list once both are answered.
C9_NoLostUpdate ==
  (/\ \A t \in Threads : Done(t) /\ resp[t] = 200
                           /\ req[t].method \in {"POST", "DELETE"}
   /\ req[1].path # req[2].path)
  => \A t \in Threads :
       /\ req[t].method = "POST" => InList(req[t].path, load_favorites)
       /\ req[t].method = "DELETE" => ~InList(req[t].path, load_favorites)

\* C10: with requests served one after the other from an empty store, the
\* stored list holds absolute track paths, no track twice; POST of a stored
\* path changes nothing, POST of a new path appends it, DELETE removes it.
C10_FavoritesListWellFormed ==
  /\ \A i \in 1..Len(load_favorites) :
       /\ IsAbs(load_favorites[i])
       /\ \A j \in 1..Len(load_favorites) :
            i # j => RealPath(load_favorites[i]) # RealPath(load_favorites[j])
  /\ (Done(1) /\ req[1].op = "favorites" /\ resp[1] = 200) =>
       /\ req[1].method = "POST" =>
            load_favorites = IF InList(req[1].path, loaded[1]) THEN loaded[1]
                             ELSE Append(loaded[1], req[1].path)
       /\ req[1].method = "DELETE" => ~InList(req[1].path, load_favorites)

\* ------------------------------------------------------- the library scan
P_l == <<"/", "l">>

supported_audio ==
  { <<".", "m", "p", "3">>, <<".", "f", "l", "a", "c">>, <<".", "w", "a", "v">>,
    <<".", "a", "a", "c">>, <<".", "m", "4", "a">>, <<".", "o", "g", "g">>,
    <<".", "o", "p", "u", "s">>, <<".", "a", "p", "e">>, <<".", "w", "m", "a">> }

supported_img ==
  { <<".", "j", "p", "g">>, <<".", "p", "n", "g">>, <<".", "j", "p", "e", "g">> }

K_cover == <<"c", "o", "v", "e", "r">>
K_folder == <<"f", "o", "l", "d", "e", "r">>
K_front == <<"f", "r", "o", "n", "t">>

\* File names a directory of the library may hold.
N_a_mp3 == <<"a", ".", "m", "p", "3">>
N_B_WAV == <<"B", ".", "W", "A", "V">>
N_c_ogg == <<"c", ".", "o", "g", "g">>
N_cover_jpg == <<"c", "o", "v", "e", "r", ".", "j", "p", "g">>
N_Folder_jpg == <<"F", "o", "l", "d", "e", "r", ".", "j", "p", "g">>
N_z_jpeg == <<"z", ".", "j", "p", "e", "g">>
N_A_png == <<"A", ".", "p", "n", "g">>
N_aFront_png == <<"a", "F", "r", "o", "n", "t", ".", "p", "n", "g">>
N_a_lrc == <<"a", ".", "l", "r", "c">>
N_A_lrc == <<"A", ".", "l", "r", "c">>
N_a_LRC == <<"a", ".", "L", "R", "C">>
N_n_txt == <<"n", ".", "t", "x", "t">>
N_d == <<"d">>

FileNames ==
  { N_a_mp3, N_B_WAV, N_cover_jpg, N_Folder_jpg, N_aFront_png, N_z_jpeg,
    N_A_png, N_a_lrc, N_A_lrc, N_a_LRC, N_n_txt }

\* The subdirectories the library root may hold: none, d (with a track and
\* a cover of its own), or an empty directory named a.lrc.
DirChoices == { {}, {N_d}, {N_a_lrc} }

SubFiles(d) == IF d = N_d THEN << N_Folder_jpg, N_c_ogg >> ELSE <<>>

\* Every sequence of at most n different file names.
RECURSIVE Listings(_)
Listings(n) ==
  IF n = 0 THEN { <<>> }
  ELSE LET shorter == Listings(n - 1)
       IN shorter \cup
          UNION { { Append(l, f) :
                      f \in {x \in FileNames : \A i \in 1..Len(l) : l[i] # x} } :
                  l \in {x \in shorter : Len(x) = n - 1} }

\* What the tag readers make of an audio file, by its name: a.mp3 cannot
\* be parsed at all, B.WAV has no easy tags but a raw TPE1 frame, c.ogg has
\* artist and album.
Unreadable == [kind |-> "raise"]
NoTags == [kind |-> "tags", tags |-> [k \in {} |-> <<>>]]
TagFile(name) ==
  IF name = N_c_ogg
  THEN [easyid3 |-> Unreadable,
        easy |-> [kind |-> "tags",
                  tags |-> [k \in {"artist", "album"} |->
                              IF k = "artist" THEN << "X" >> ELSE << "Y" >>]],
        raw |-> NoTags]
  ELSE IF name = N_B_WAV
  THEN [easyid3 |-> Unreadable,
        easy |-> NoTags,
        raw |-> [kind |-> "tags", tags |-> [k \in {"TPE1"} |-> "T"]]]
  ELSE [easyid3 |-> Unreadable, easy |-> Unreadable, raw |-> Unreadable]

DefaultArtist == "unknown artist"
DefaultAlbum == "unknown album"

\* get_metadata without the try/except around the tag readers.
get_metadata_nocatch(name) ==
  LET f == TagFile(name)
      first == IF EndsWith(Lower(name), S_mp3)
               THEN (IF f.easyid3.kind # "raise" THEN f.easyid3 ELSE f.easy)
               ELSE f.easy
  IN IF first.kind = "raise" THEN [raised |-> TRUE, artist |-> "", album |-> ""]
     ELSE [raised |-> FALSE, artist |-> DefaultArtist, album |-> DefaultAlbum]

\* get_metadata: (artist, album) of an audio file, the defaults when a
\* reader raises or no key is found.
get_metadata(name) ==
  LET f == TagFile(name)
      falsy(a) == a.kind = "none" \/ (a.kind = "tags" /\ DOMAIN a.tags = {})
      first == IF EndsWith(Lower(name), S_mp3)
               THEN (IF f.easyid3.kind # "raise" THEN f.easyid3 ELSE f.easy)
               ELSE f.easy
      audio == IF first.kind = "raise" THEN first
               ELSE IF falsy(first) THEN f.raw ELSE first
      has(k) == k \in DOMAIN audio.tags
      \* an IndexError on an empty value list is an exception as well
      raised == \/ audio.kind = "raise"
                \/ (~falsy(audio) /\ has("artist") /\ audio.tags["artist"] = <<>>)
                \/ (~falsy(audio) /\ has("album") /\ audio.tags["album"] = <<>>)
      artist == IF raised \/ falsy(audio) THEN ""
                ELSE IF has("artist") THEN audio.tags["artist"][1]
                ELSE IF has("TPE1") THEN audio.tags["TPE1"]
                ELSE IF has("author") THEN audio.tags["author"][1]
                ELSE ""
      album == IF raised \/ falsy(audio) THEN ""
               ELSE IF has("album") THEN audio.tags["album"][1]
               ELSE IF has("TALB") THEN audio.tags["TALB"]
               ELSE IF has("wm/albumtitle") THEN audio.tags["wm/albumtitle"][1]
               ELSE ""
  IN [raised |-> FALSE,
      artist |-> IF artist = "" THEN DefaultArtist ELSE artist,
      album |-> IF album = "" THEN DefaultAlbum ELSE album]

\* list.sort() on file names.
RECURSIVE SortNames(_)
SortNames(l) ==
  IF l = <<>> THEN <<>>
  ELSE LET k == CHOOSE i \in 1..Len(l) : \A j \in 1..Len(l) : ~StrLess(l[j], l[i])
       IN << l[k] >> \o SortNames(SubSeq(l, 1, k - 1) \o SubSeq(l, k + 1, Len(l)))

\* os.walk(base_dir): (root, filenames) of the library root and then of its
\* subdirectories; nothing when base_dir is no directory.
Walk(base_dir, files, dirs) ==
  IF Lstat(RealSegs(base_dir)).kind # "dir" THEN <<>>
  ELSE << [root |-> base_dir, filenames |-> files, dirnames |-> dirs] >>
       \o (IF dirs = {} THEN <<>>
           ELSE LET d == CHOOSE x \in dirs : TRUE
                IN << [root |-> PathJoin(base_dir, d), filenames |-> SubFiles(d),
                       dirnames |-> {}] >>)

\* lines 218-229: one directory's files by kind, audio and img sorted.
Bucket(w) ==
  LET ext(f) == Lower(SplitExtExt(f))
  IN [audio |-> SortNames(SelectSeq(w.filenames, LAMBDA f : ext(f) \in supported_audio)),
      img |-> SortNames(SelectSeq(w.filenames, LAMBDA f : ext(f) \in supported_img)),
      lrc |-> SelectSeq(w.filenames,
                        LAMBDA f : ext(f) \notin supported_audio
                                   /\ ext(f) \notin supported_img /\ ext(f) = S_lrc)]

\* The element of a list at the first of the indexes hits, NoneVal when
\* there is none: what a for loop that breaks at its first match finds.
FirstAt(l, hits) ==
  IF hits = {} THEN NoneVal
  ELSE l[CHOOSE i \in hits : \A j \in hits : i <= j]

\* "cover", "folder" or "front" in the lowercased name (line 233).
HasKeyword(f) ==
  \/ Contains(Lower(f), K_cover)
  \/ Contains(Lower(f), K_folder)
  \/ Contains(Lower(f), K_front)

\* The default cover taking "cover" before "folder" and "front".
default_cover_cover_first(img) ==
  LET c == FirstAt(img, {i \in 1..Len(img) : Contains(Lower(img[i]), K_cover)})
      o == FirstAt(img, {i \in 1..Len(img) : HasKeyword(img[i])})
  IN IF c # NoneVal THEN c ELSE IF o # NoneVal THEN o
     ELSE IF img # <<>> THEN img[1] ELSE NoneVal

\* The default cover without the fallback to the first image.
default_cover_no_fallback(img) ==
  FirstAt(img, {i \in 1..Len(img) : HasKeyword(img[i])})

\* lines 231-237: the image name chosen as the directory's default cover.
default_cover_of(img) ==
  LET hit == FirstAt(img, {i \in 1..Len(img) : HasKeyword(img[i])})
  IN IF hit # NoneVal THEN hit
     ELSE IF img # <<>> THEN img[1] ELSE NoneVal

\* The lyric taken from the bucket's list even when X.lrc exists.
lrc_of_list_first(base_name, w, lrc) ==
  FirstAt(lrc, {i \in 1..Len(lrc) :
                  Lower(SplitExtRoot(lrc[i])) = Lower(base_name)})

\* lines 243-252: the name of the track's lyric file. os.path.exists sees
\* every entry of the directory, its subdirectories included.
lrc_of(base_name, w, lrc) ==
  LET literal == base_name \o S_lrc
      exists == (\E i \in 1..Len(w.filenames) : w.filenames[i] = literal)
                \/ literal \in w.dirnames
  IN IF exists THEN literal
     ELSE FirstAt(lrc, {i \in 1..Len(lrc) :
                          Lower(SplitExtRoot(lrc[i])) = Lower(base_name)})

\* lines 254-258: the name of the track's cover image.
cover_of(base_name, img, default_cover) ==
  LET own == FirstAt(img, {i \in 1..Len(img) :
                             Lower(SplitExtRoot(img[i])) = Lower(base_name)})
  IN IF own # NoneVal THEN own ELSE default_cover

\* A name of the directory as a path, None kept.
InDir(root, name) == IF name = NoneVal THEN NoneVal ELSE PathJoin(root, name)

\* lines 227-271: the tracks of one directory.
TracksOf(w) ==
  LET data == Bucket(w)
      default_cover == default_cover_of(data.img)
  IN [i \in 1..Len(data.audio) |->
        LET audio_file == data.audio[i]
            base_name == SplitExtRoot(audio_file)
            meta == get_metadata(audio_file)
        IN [name |-> audio_file,
            path |-> PathJoin(w.root, audio_file),
            type |-> Lower(SplitExtExt(audio_file)),
            parent |-> w.root,
            cover_path |-> InDir(w.root, cover_of(base_name, data.img, default_cover)),
            lrc_path |-> InDir(w.root, lrc_of(base_name, w, data.lrc)),
            artist |-> meta.artist,
            album |-> meta.album,
            raised |-> meta.raised]]

RECURSIVE Flatten(_)
Flatten(ll) == IF ll = <<>> THEN <<>> ELSE Head(ll) \o Flatten(Tail(ll))

\* list_files: the status answered, the tracks emitted and, directory by
\* directory in walk order, the default cover computed on the way.
list_files_result(env, cfg, files, dirs) ==
  LET base_dir == get_music_dir_of(env, cfg)
  IN IF base_dir = <<>> \/ ~Exists(base_dir)
     THEN [status |-> 200, songs |-> <<>>, defaults |-> <<>>]
     ELSE LET walk == Walk(base_dir, files, dirs)
              songs == Flatten([i \in 1..Len(walk) |-> TracksOf(walk[i])])
              defaults == [i \in 1..Len(walk) |->
                             InDir(walk[i].root, default_cover_of(Bucket(walk[i]).img))]
          IN IF \E i \in 1..Len(songs) : songs[i].raised
             THEN [status |-> 500, songs |-> <<>>, defaults |-> defaults]
             ELSE [status |-> 200, songs |-> songs, defaults |-> defaults]

\* (MUSIC_DIR, config music_directory) naming the library /l: MUSIC_DIR
\* blank, the config file's value written " \l " ...
ValidRoots ==
  { << <<" ">>, <<" ", "\\", "l", " ">> >> }

\* ... and naming nothing that can be scanned: unset, blank, missing paths
\* (vol1 becomes /vol1), and a regular file.
InvalidRoots ==
  { << NoneVal, NoneVal >>, << <<>>, <<>> >>, << <<" ">>, NoneVal >>,
    << P_zz, NoneVal >>, << <<"v", "o", "l", "1">>, NoneVal >>,
    << NoneVal, P_e >> }

InitScan ==
  /\ \/ /\ \E r \in ValidRoots : environ = r[1] /\ cfgMusic = r[2]
        /\ walkFiles \in Listings(MaxFiles)
        /\ walkDirs \in DirChoices
        /\ \A i \in 1..Len(walkFiles) : walkFiles[i] \notin walkDirs
     \/ /\ \E r \in InvalidRoots : environ = r[1] /\ cfgMusic = r[2]
        /\ walkFiles = <<>>
        /\ walkDirs = {}
  /\ scanRes = NoScan
  /\ favFile = [state |-> "missing", data |-> <<>>]
  /\ pc = [t \in Threads |-> "idle"]
  /\ req = [t \in Threads |-> NoRequest]
  /\ loaded = [t \in Threads |-> <<>>]
  /\ favs = [t \in Threads |-> <<>>]
  /\ resp = [t \in Threads |-> 0]
  /\ opened = [t \in Threads |-> {}]
  /\ wrote = [t \in Threads |-> FALSE]
  /\ nreq = 0
  /\ GuardIdle

\* GET /api/files
list_files ==
  /\ scanRes = NoScan
  /\ scanRes' = list_files_result(environ, cfgMusic, walkFiles, walkDirs)
  /\ UNCHANGED << walkFiles, walkDirs, svars, gvars >>

NextScan == list_files

SpecScan == InitScan /\ [][NextScan]_vars

\* ------------------------------------------------------ claims on the scan
Scanned == scanRes.status # 0

\* The directories the scan visits, as the filesystem holds them.
Visited == Walk(get_music_dir, walkFiles, walkDirs)

NamesIn(w) == {w.filenames[i] : i \in 1..Len(w.filenames)}
ImagesIn(w) == {f \in NamesIn(w) : Lower(SplitExtExt(f)) \in supported_img}
AudioIn(w) == {f \in NamesIn(w) : Lower(SplitExtExt(f)) \in supported_audio}
LyricsIn(w) == {f \in NamesIn(w) : Lower(SplitExtExt(f)) = S_lrc}

NamedCover(f) == Contains(Lower(f), K_cover)
NamedKeyword(f) ==
  Contains(Lower(f), K_cover) \/ Contains(Lower(f), K_folder) \/ Contains(Lower(f), K_front)

\* The least name of a non-empty set in sort order.
Least(S) == CHOOSE f \in S : \A g \in S : ~StrLess(g, f)

\* The directory a track was found in.
DirOf(track) == CHOOSE i \in 1..Len(Visited) : Visited[i].root = track.parent

\* C5 as stated: in every directory holding an image whose name contains
\* "cover" (any case), the default cover is such an image, whatever other
\* images are there.
C5_CoverNamedImageIsDefault ==
  Scanned => \A i \in 1..Len(Visited) :
    (\E f \in ImagesIn(Visited[i]) : NamedCover(f)) =>
      \E f \in ImagesIn(Visited[i]) :
        NamedCover(f) /\ scanRes.defaults[i] = PathJoin(Visited[i].root, f)

\* C5 amended: in every directory holding an image whose name contains
\* "cover" (any case), the default cover is the first image in name-sorted
\* order whose lowercased name contains "cover", "folder" or "front"; it is
\* a "cover" image exactly when no "folder" or "front" image sorts before
\* every "cover" image.
C5_FirstKeywordImageIsDefault ==
  Scanned => \A i \in 1..Len(Visited) :
    LET imgs == ImagesIn(Visited[i])
        first == Least({f \in imgs : NamedKeyword(f)})
    IN (\E f \in imgs : NamedCover(f)) =>
         /\ scanRes.defaults[i] = PathJoin(Visited[i].root, first)
         /\ NamedCover(first) <=>
              \A g \in imgs : (NamedKeyword(g) /\ ~NamedCover(g)) =>
                                \E c \in imgs : NamedCover(c) /\ StrLess(c, g)

\* A directory with cover.jpg whose default cover is Folder.jpg.
C5_Witness ==
  /\ Scanned /\ Len(Visited) >= 1
  /\ N_cover_jpg \in ImagesIn(Visited[1])
  /\ scanRes.defaults[1] = PathJoin(Visited[1].root, N_Folder_jpg)

\* C6: a track's cover_path is the image of its directory whose base name
\* equals the audio base name case-insensitively (the first in sorted order
\* when several do), else the first image in sorted order whose lowercased
\* name contains "cover", "folder" or "front", else the first image in
\* sorted order, else null.
C6_TrackCover ==
  Scanned => \A k \in 1..Len(scanRes.songs) :
    LET track == scanRes.songs[k]
        w == Visited[DirOf(track)]
        imgs == ImagesIn(w)
        own == {f \in imgs :
                  Lower(SplitExtRoot(f)) = Lower(SplitExtRoot(track.name))}
        keyed == {f \in imgs : NamedKeyword(f)}
    IN track.cover_path =
         IF own # {} THEN PathJoin(w.root, Least(own))
         ELSE IF keyed # {} THEN PathJoin(w.root, Least(keyed))
         ELSE IF imgs # {} THEN PathJoin(w.root, Least(imgs))
         ELSE NoneVal

\* A track whose cover is the first image of a directory without any
\* keyword image, next to one sorted after it.
C6_Witness ==
  /\ Scanned
  /\ \E k \in 1..Len(scanRes.songs) :
       /\ scanRes.songs[k].name = N_B_WAV
       /\ scanRes.songs[k].cover_path = PathJoin(get_music_dir, N_A_png)
       /\ ImagesIn(Visited[1]) = {N_A_png, N_z_jpeg}

\* C7: with X the audio base name, lrc_path is X.lrc when the directory has
\* an entry of exactly that name (os.path.exists), whatever the lyric list
\* holds; otherwise the first file of the directory's lyric list (in walk
\* order) whose base name equals X case-insensitively; otherwise null.
C7_TrackLyric ==
  Scanned => \A k \in 1..Len(scanRes.songs) :
    LET track == scanRes.songs[k]
        w == Visited[DirOf(track)]
        X == SplitExtRoot(track.name)
        literal == X \o S_lrc
        matches == {i \in 1..Len(w.filenames) :
                      /\ w.filenames[i] \in LyricsIn(w)
                      /\ Lower(SplitExtRoot(w.filenames[i])) = Lower(X)}
    IN track.lrc_path =
         IF literal \in NamesIn(w) \cup w.dirnames THEN PathJoin(w.root, literal)
         ELSE IF matches # {}
              THEN PathJoin(w.root,
                            w.filenames[CHOOSE i \in matches : \A j \in matches : i <= j])
         ELSE NoneVal

\* a.mp3 got a.lrc although A.lrc comes first in the directory's lyric list.
C7_Witness ==
  /\ Scanned
  /\ \E i, j \in 1..Len(walkFiles) :
       i < j /\ walkFiles[i] = N_A_lrc /\ walkFiles[j] = N_a_lrc
  /\ \E k \in 1..Len(scanRes.songs) :
       /\ scanRes.songs[k].name = N_a_mp3
       /\ scanRes.songs[k].lrc_path = PathJoin(get_music_dir, N_a_lrc)

\* C8: the scan always answers normally; it emits no track when the media
\* root is unset, blank or missing, and none when no visited directory
\* holds a file of a supported audio extension; otherwise every audio file
\* is emitted, with a null cover_path / lrc_path where the directory has no
\* image / matching lyric and the default artist and album where the tags
\* cannot be read.
C8_ScanNeverFails ==
  Scanned =>
    /\ scanRes.status = 200
    /\ (\E r \in InvalidRoots : environ = r[1] /\ cfgMusic = r[2])
         => scanRes.songs = <<>>
    /\ (\A i \in 1..Len(Visited) : AudioIn(Visited[i]) = {}) => scanRes.songs = <<>>
    /\ \A i \in 1..Len(Visited) : \A f \in AudioIn(Visited[i]) :
         \E k \in 1..Len(scanRes.songs) :
           LET track == scanRes.songs[k]
           IN /\ track.path = PathJoin(Visited[i].root, f)
              /\ ImagesIn(Visited[i]) = {} => track.cover_path = NoneVal
              /\ (LyricsIn(Visited[i]) = {} /\ Visited[i].dirnames = {})
                   => track.lrc_path = NoneVal
              /\ TagFile(f).easy = Unreadable =>
                   (track.artist = DefaultArtist /\ track.album = DefaultAlbum)

\* A track with unreadable tags, no cover and no lyric has been emitted.
C8_Witness ==
  /\ Scanned /\ Len(scanRes.songs) = 1
  /\ scanRes.songs[1].name = N_a_mp3
  /\ scanRes.songs[1].cover_path = NoneVal
  /\ scanRes.songs[1].lrc_path = NoneVal
  /\ scanRes.songs[1].artist = DefaultArtist
  /\ N_n_txt \in NamesIn(Visited[1])

=============================================================================
